---- MODULE Spec2Model ----
(***************************************************************************)
(* A model of generate_password.py: the character-set assembler, the       *)
(* password generator, the strength estimator and the command-line front   *)
(* end (main).                                                             *)
(*                                                                         *)
(* Python integers are unbounded.  They are modelled as sequences of       *)
(* decimal digits, least significant digit first, without leading zeros    *)
(* (<<>> is 0), with schoolbook arithmetic on them, so that 26^8 or        *)
(* 72^16 are computed exactly.  A Python str is a sequence of one-character *)
(* strings; a Python set is a set.                                         *)
(***************************************************************************)
EXTENDS Integers, Sequences, FiniteSets, TLC

VARIABLES pc, argv, args, stdout, exit_status, raised, possibilities,
          charset, password, caller, seconds, ret, calls

vars == <<pc, argv, args, stdout, exit_status, raised, possibilities,
          charset, password, caller, seconds, ret, calls>>

(***************************************************************************)
(* Bounds of the model.                                                    *)
(***************************************************************************)
\* the longest password a run generates character by character
MaxLen == 1
\* lengths below 1 go down to 1 - MaxNeg - 1, i.e. 0 - MaxNeg .. 0
MaxNeg == 1
\* the largest exponent handed to compute_possibilities on its own
MaxPowLen == 16
\* get_natural_time_string is called on every threshold -MaxDelta .. +MaxDelta
MaxDelta == 2

(***************************************************************************)
(* Unbounded non-negative integers.                                        *)
(***************************************************************************)
RECURSIVE Norm(_)
Norm(a) ==
    IF a = <<>> THEN <<>>
    ELSE IF a[Len(a)] = 0 THEN Norm(SubSeq(a, 1, Len(a) - 1))
    ELSE a

Reverse(s) == [i \in 1..Len(s) |-> s[Len(s) + 1 - i]]

\* the number written in decimal as the digits of s, first digit first
Dec(s) == Norm(Reverse(s))

RECURSIVE FromInt(_)
FromInt(n) == IF n = 0 THEN <<>> ELSE <<n % 10>> \o FromInt(n \div 10)

BigLess(a, b) ==
    IF Len(a) # Len(b) THEN Len(a) < Len(b)
    ELSE \E i \in 1..Len(a) :
            /\ a[i] < b[i]
            /\ \A j \in (i + 1)..Len(a) : a[j] = b[j]

BigLeq(a, b) == ~BigLess(b, a)

RECURSIVE AddFrom(_, _, _, _)
AddFrom(a, b, i, carry) ==
    IF i > Len(a) /\ i > Len(b) THEN FromInt(carry)
    ELSE LET ai == IF i <= Len(a) THEN a[i] ELSE 0
             bi == IF i <= Len(b) THEN b[i] ELSE 0
             t  == ai + bi + carry
         IN  <<t % 10>> \o AddFrom(a, b, i + 1, t \div 10)

BigAdd(a, b) == Norm(AddFrom(a, b, 1, 0))

\* a - b for a >= b
RECURSIVE SubFrom(_, _, _, _)
SubFrom(a, b, i, borrow) ==
    IF i > Len(a) THEN <<>>
    ELSE LET bi == IF i <= Len(b) THEN b[i] ELSE 0
             d  == a[i] - bi - borrow
         IN  IF d < 0 THEN <<d + 10>> \o SubFrom(a, b, i + 1, 1)
                      ELSE <<d>> \o SubFrom(a, b, i + 1, 0)

BigSub(a, b) == Norm(SubFrom(a, b, 1, 0))

\* a * m for a machine-sized m >= 0
RECURSIVE MulFrom(_, _, _, _)
MulFrom(a, m, i, carry) ==
    IF i > Len(a) THEN FromInt(carry)
    ELSE LET t == a[i] * m + carry
         IN  <<t % 10>> \o MulFrom(a, m, i + 1, t \div 10)

BigMulInt(a, m) == Norm(MulFrom(a, m, 1, 0))

\* the quotient digit of long division: the d with b*d <= cur < b*(d+1)
QuotDigit(cur, b) ==
    CHOOSE d \in 0..9 : /\ BigLeq(BigMulInt(b, d), cur)
                        /\ BigLess(cur, BigMulInt(b, d + 1))

\* long division by b > 0: the digits of a from the highest (i = Len(a)) down
\* to the lowest; q and r are the quotient and the remainder of the digits
\* above i.  (The test on Len(rem) only makes the remainder be computed
\* before the next digit is taken.)
RECURSIVE DivFrom(_, _, _, _, _)
DivFrom(a, b, i, q, r) ==
    IF i = 0 THEN [q |-> q, r |-> r]
    ELSE LET cur == Norm(<<a[i]>> \o r)
             d   == QuotDigit(cur, b)
             rem == BigSub(cur, BigMulInt(b, d))
         IN  IF Len(rem) >= 0 THEN DivFrom(a, b, i - 1, <<d>> \o q, rem)
                              ELSE [q |-> q, r |-> r]

\* Python's a // b and a % b on non-negative integers
BigDiv(a, b) == Norm(DivFrom(a, b, Len(a), <<>>, <<>>).q)
BigMod(a, b) == DivFrom(a, b, Len(a), <<>>, <<>>).r

\* Python's n ** k for an int n >= 0 and k >= 0 (0 ** 0 is 1)
RECURSIVE IntPow(_, _)
IntPow(n, k) == IF k = 0 THEN <<1>> ELSE BigMulInt(IntPow(n, k - 1), n)

(***************************************************************************)
(* The module's constants.                                                 *)
(***************************************************************************)
\* the string literals the alphabets are built from
UPPER_CASE_STRING ==
    <<"A", "B", "C", "D", "E", "F", "G", "H", "I", "J", "K", "L", "M",
      "N", "O", "P", "Q", "R", "S", "T", "U", "V", "W", "X", "Y", "Z">>
LOWER_CASE_STRING ==
    <<"a", "b", "c", "d", "e", "f", "g", "h", "i", "j", "k", "l", "m",
      "n", "o", "p", "q", "r", "s", "t", "u", "v", "w", "x", "y", "z">>
NUMBER_STRING ==
    <<"0", "1", "2", "3", "4", "5", "6", "7", "8", "9">>
\* a symbol alphabet that lacks the two parentheses
SYMBOL_STRING_8 ==
    <<"!", "@", "#", "$", "%", "^", "&", "*">>
SYMBOL_STRING ==
    <<"!", "@", "#", "$", "%", "^", "&", "*", "(", ")">>

\* set(str): the characters of a string, each once
set(str) == {str[i] : i \in 1..Len(str)}

UPPER_CASE_CHARS == set(UPPER_CASE_STRING)
LOWER_CASE_CHARS == set(LOWER_CASE_STRING)
NUMBER_CHARS == set(NUMBER_STRING)
SYMBOL_CHARS == set(SYMBOL_STRING)

SECONDS_IN_A_YEAR == FromInt(365 * 24 * 60 * 60)
AGE_OF_THE_UNIVERSE_Y == Dec(<<1, 3, 8, 0, 0, 0, 0, 0, 0, 0, 0>>)
POTENTIAL_BF_ATTACKS_PER_SECOND == FromInt(1000000000)

(***************************************************************************)
(* datetime.timedelta, as far as the program uses it.                      *)
(***************************************************************************)
\* timedelta.max
timedelta_max ==
    [days |-> FromInt(999999999), seconds |-> FromInt(86399),
     microseconds |-> FromInt(999999)]

\* timedelta.total_seconds(): (days*86400 + seconds)*10^6 + microseconds,
\* divided by 10^6 as a float.  For timedelta.max the quotient lies in
\* [2^46, 2^47), where the doubles are the multiples of 1/64: the result is
\* the nearest multiple of 1/64 second, i.e. of 15625 microseconds.  It is
\* given here in units of 1/64 second.
total_seconds_x64(td) ==
    LET micros == BigAdd(BigMulInt(BigAdd(BigMulInt(td.days, 86400),
                                          td.seconds), 1000000),
                         td.microseconds)
    IN  BigDiv(BigAdd(micros, FromInt(15625 \div 2)), FromInt(15625))

\* the comparison  secs > timedelta.max.total_seconds()  of an int with a
\* float, which Python decides exactly
exceeds_timedelta_max(secs) ==
    BigLess(total_seconds_x64(timedelta_max), BigMulInt(secs, 64))

\* timedelta(seconds=secs): normalised to days and seconds; OverflowError
\* when the days exceed 999999999
timedelta(secs) ==
    LET days == BigDiv(secs, FromInt(86400))
    IN  IF BigLess(timedelta_max.days, days)
        THEN [raised |-> "OverflowError", days |-> <<>>, seconds |-> <<>>,
              microseconds |-> <<>>]
        ELSE [raised |-> "none", days |-> days,
              seconds |-> BigMod(secs, FromInt(86400)), microseconds |-> <<>>]

(***************************************************************************)
(* The functions of the program.                                           *)
(***************************************************************************)
\* list(s): the elements of a set, each once.  Python leaves the iteration
\* order of a set open; the list is read only by secrets.choice, whose index
\* ranges over every position, so the order taken here (the one CHOOSE
\* gives) changes no outcome.
RECURSIVE list(_)
list(S) ==
    IF S = {} THEN <<>>
    ELSE LET x == CHOOSE y \in S : TRUE
         IN  <<x>> \o list(S \ {x})

\* a slip that makes the numbers flag add the symbols
assemble_charset_numbers_as_symbols(upper_case, lower_case, nums, symbols) ==
    list((IF upper_case THEN UPPER_CASE_CHARS ELSE {})
         \cup (IF lower_case THEN LOWER_CASE_CHARS ELSE {})
         \cup (IF nums THEN SYMBOL_CHARS ELSE {})
         \cup (IF symbols THEN SYMBOL_CHARS ELSE {}))

\* a slip that adds the lower case letters whatever their flag
assemble_charset_always_lower(upper_case, lower_case, nums, symbols) ==
    list((IF upper_case THEN UPPER_CASE_CHARS ELSE {})
         \cup LOWER_CASE_CHARS
         \cup (IF nums THEN NUMBER_CHARS ELSE {})
         \cup (IF symbols THEN SYMBOL_CHARS ELSE {}))

assemble_charset(upper_case, lower_case, nums, symbols) ==
    list((IF upper_case THEN UPPER_CASE_CHARS ELSE {})
         \cup (IF lower_case THEN LOWER_CASE_CHARS ELSE {})
         \cup (IF nums THEN NUMBER_CHARS ELSE {})
         \cup (IF symbols THEN SYMBOL_CHARS ELSE {}))

\* the number of possible characters
possible_chars(upper_case, lower_case, nums, symbols) ==
    (IF upper_case THEN Cardinality(UPPER_CASE_CHARS) ELSE 0)
    + (IF lower_case THEN Cardinality(LOWER_CASE_CHARS) ELSE 0)
    + (IF nums THEN Cardinality(NUMBER_CHARS) ELSE 0)
    + (IF symbols THEN Cardinality(SYMBOL_CHARS) ELSE 0)

\* the power kept in an unsigned 64-bit word
compute_possibilities_64bit(length, upper_case, lower_case, nums, symbols) ==
    BigMod(IntPow(possible_chars(upper_case, lower_case, nums, symbols), length),
           Dec(<<1, 8, 4, 4, 6, 7, 4, 4, 0, 7, 3, 7, 0, 9, 5, 5, 1, 6, 1, 6>>))

compute_possibilities(length, upper_case, lower_case, nums, symbols) ==
    IntPow(possible_chars(upper_case, lower_case, nums, symbols), length)

get_timedelta(secs) ==
    IF exceeds_timedelta_max(secs)
    THEN [raised |-> "none", days |-> timedelta_max.days,
          seconds |-> timedelta_max.seconds,
          microseconds |-> timedelta_max.microseconds]
    ELSE timedelta(secs)

NoDelta == [raised |-> "none", days |-> <<>>, seconds |-> <<>>, microseconds |-> <<>>]

\* The result of get_natural_time_string: the phrase (text) around the
\* formatted value, humanize.intword(n) or humanize.naturaldelta(delta), or
\* the exception that leaves it.
get_natural_time_string(secs) ==
    IF exceeds_timedelta_max(secs)
    THEN LET years == BigDiv(secs, SECONDS_IN_A_YEAR)
         IN  IF BigLess(AGE_OF_THE_UNIVERSE_Y, years)
             THEN [raised |-> "none", text |-> "%s times the age of the universe",
                   n |-> BigDiv(years, AGE_OF_THE_UNIVERSE_Y), delta |-> NoDelta]
             ELSE [raised |-> "none", text |-> "%s years", n |-> years,
                   delta |-> NoDelta]
    ELSE LET td == get_timedelta(secs)
         IN  IF td.raised # "none"
             THEN [raised |-> td.raised, text |-> "", n |-> <<>>, delta |-> NoDelta]
             ELSE [raised |-> "none", text |-> "naturaldelta", n |-> <<>>,
                   delta |-> td]

\* optional_print that prints whatever suppress says
optional_print_always(out, string, suppress) == Append(out, string)

\* optional_print that prints when suppress is set
optional_print_inverted(out, string, suppress) ==
    IF suppress THEN Append(out, string) ELSE out

\* stdout after optional_print(string, suppress)
optional_print(out, string, suppress) ==
    IF ~suppress THEN Append(out, string) ELSE out

\* stdout after print(string)
print(out, string) == Append(out, string)

\* the validity test with its bound off by one
length_is_invalid_below_zero(length) == length < 0

\* the test of main on the length
length_is_invalid(length) == length < 1

\* the test for "no class given" with or in place of and
no_characters_specified_any(a) ==
    ~a.upper_case \/ ~a.lower_case \/ ~a.numbers \/ ~a.symbols

\* the test of main for no class being given
no_characters_specified(a) ==
    ~a.upper_case /\ ~a.lower_case /\ ~a.numbers /\ ~a.symbols

\* a loop that runs once more than range(length)
range_continues_inclusive(i, length) == i <= length

\* whether  for _ in range(length)  has an iteration left after i of them
range_continues(i, length) == i < length

\* secrets.choice(seq) when the random source returns the index k
secrets_choice(seq, k) == seq[k]

(***************************************************************************)
(* The state.                                                              *)
(***************************************************************************)
Lengths == (0 - MaxNeg)..MaxLen

\* the result of parse_args
Namespace ==
    [length : Lengths, upper_case : BOOLEAN, lower_case : BOOLEAN,
     numbers : BOOLEAN, symbols : BOOLEAN, quiet : BOOLEAN]

\* one printed string: its text, and the value formatted into it
Line(text, value) == [text |-> text, value |-> value]

\* the record of a call: the function and the arguments it got
Call(fn, a) ==
    [fn |-> fn, length |-> a.length, upper_case |-> a.upper_case,
     lower_case |-> a.lower_case, numbers |-> a.numbers, symbols |-> a.symbols]

NotExited == 0 - 1

\* what a run starts from, whoever calls
Fresh ==
    /\ stdout = <<>>
    /\ exit_status = NotExited
    /\ raised = "none"
    /\ possibilities = <<>>
    /\ charset = <<>>
    /\ password = <<>>
    /\ ret = <<>>
    /\ calls = <<>>

(***************************************************************************)
(* main, step by step.                                                     *)
(***************************************************************************)
Init ==
    /\ argv \in Namespace
    /\ args = argv
    /\ caller = "main"
    /\ pc = "check_length"
    /\ seconds = <<>>
    /\ Fresh

CheckLength ==
    /\ caller = "main"
    /\ pc = "check_length"
    /\ IF length_is_invalid(args.length)
       THEN /\ stdout' = optional_print(stdout,
                            Line("The length must be at least 1.", <<>>), args.quiet)
            /\ exit_status' = 1
            /\ pc' = "exited"
       ELSE /\ pc' = "header"
            /\ UNCHANGED <<stdout, exit_status>>
    /\ UNCHANGED <<argv, args, raised, possibilities, charset, password, caller,
                   seconds, ret, calls>>

PrintHeader ==
    /\ pc = "header"
    /\ stdout' = optional_print(
                    optional_print(stdout, Line("\nPASSWORD GENERATOR", <<>>),
                                   args.quiet),
                    Line("==================", <<>>), args.quiet)
    /\ pc' = "defaults"
    /\ UNCHANGED <<argv, args, exit_status, raised, possibilities, charset,
                   password, caller, seconds, ret, calls>>

ApplyDefaults ==
    /\ pc = "defaults"
    /\ IF no_characters_specified(args)
       THEN /\ args' = [args EXCEPT !.upper_case = TRUE, !.lower_case = TRUE,
                                    !.numbers = TRUE, !.symbols = TRUE]
            /\ stdout' = optional_print(stdout,
                  Line("No characters specified. Defaulting to upper case, lower case, numbers, and symbols.",
                       <<>>), args.quiet)
       ELSE UNCHANGED <<args, stdout>>
    /\ pc' = "report"
    /\ UNCHANGED <<argv, exit_status, raised, possibilities, charset, password,
                   caller, seconds, ret, calls>>

\* the strength report; an exception of get_natural_time_string ends the
\* program (status 1) after the first line is printed
Report ==
    /\ pc = "report"
    /\ IF ~args.quiet
       THEN LET p == compute_possibilities(args.length, args.upper_case,
                         args.lower_case, args.numbers, args.symbols)
                t == get_natural_time_string(
                         BigDiv(p, POTENTIAL_BF_ATTACKS_PER_SECOND))
                first == print(stdout,
                    Line("With the given parameters, the generated password is one of %s possible passwords.", p))
            IN  /\ possibilities' = p
                /\ calls' = Append(calls, Call("compute_possibilities", args))
                /\ IF t.raised # "none"
                   THEN /\ stdout' = first
                        /\ raised' = t.raised
                        /\ exit_status' = 1
                        /\ pc' = "exited"
                   ELSE /\ stdout' = print(print(first,
                              Line("It will take an attacker approx. %s to brute force the password.", t)),
                              Line("It may be much less with more sophisticated attacks (e.g. rainbow tables).\n", <<>>))
                        /\ pc' = "generate"
                        /\ UNCHANGED <<raised, exit_status>>
       ELSE /\ pc' = "generate"
            /\ UNCHANGED <<possibilities, calls, stdout, raised, exit_status>>
    /\ UNCHANGED <<argv, args, charset, password, caller, seconds, ret>>

(***************************************************************************)
(* generate_password, called by main or on its own: its entry, one         *)
(* iteration of its loop, and its return.                                  *)
(***************************************************************************)
GenerateEntry ==
    /\ pc = "generate"
    /\ charset' = assemble_charset(args.upper_case, args.lower_case,
                                   args.numbers, args.symbols)
    /\ password' = <<>>
    /\ calls' = Append(calls, Call("generate_password", args))
    /\ pc' = "gp_loop"
    /\ UNCHANGED <<argv, args, stdout, exit_status, raised, possibilities,
                   caller, seconds, ret>>

\* secrets.choice raises IndexError on an empty sequence; uncaught, it ends
\* main with status 1
GenLoop ==
    /\ pc = "gp_loop"
    /\ range_continues(Len(password), args.length)
    /\ IF charset = <<>>
       THEN /\ raised' = "IndexError"
            /\ pc' = IF caller = "main" THEN "exited" ELSE "raised"
            /\ exit_status' = IF caller = "main" THEN 1 ELSE exit_status
            /\ UNCHANGED password
       ELSE /\ \E k \in 1..Len(charset) :
                  password' = password \o <<secrets_choice(charset, k)>>
            /\ UNCHANGED <<raised, pc, exit_status>>
    /\ UNCHANGED <<argv, args, stdout, possibilities, charset, caller, seconds,
                   ret, calls>>

GenReturn ==
    /\ pc = "gp_loop"
    /\ ~range_continues(Len(password), args.length)
    /\ IF caller = "main"
       THEN /\ pc' = "print_password"
            /\ UNCHANGED ret
       ELSE /\ pc' = "returned"
            /\ ret' = password
    /\ UNCHANGED <<argv, args, stdout, exit_status, raised, possibilities,
                   charset, password, caller, seconds, calls>>

PrintPassword ==
    /\ pc = "print_password"
    /\ stdout' = IF ~args.quiet
                 THEN print(stdout,
                        Line("The generated password is: GREEN\n%s\nRESET_ALL", password))
                 ELSE print(stdout, Line("%s", password))
    /\ exit_status' = 0
    /\ pc' = "exited"
    /\ UNCHANGED <<argv, args, raised, possibilities, charset, password,
                   caller, seconds, ret, calls>>

Next ==
    \/ CheckLength
    \/ PrintHeader
    \/ ApplyDefaults
    \/ Report
    \/ GenerateEntry
    \/ GenLoop
    \/ GenReturn
    \/ PrintPassword

Spec == Init /\ [][Next]_vars

(***************************************************************************)
(* generate_password called on its own, with every length and selection.   *)
(***************************************************************************)
InitGen ==
    /\ argv \in {a \in Namespace : ~a.quiet}
    /\ args = argv
    /\ caller = "generate_password"
    /\ pc = "generate"
    /\ seconds = <<>>
    /\ Fresh

NextGen ==
    \/ GenerateEntry
    \/ GenLoop
    \/ GenReturn

SpecGen == InitGen /\ [][NextGen]_vars

(***************************************************************************)
(* The strength estimator called on its own: assemble_charset and          *)
(* compute_possibilities with every selection, the latter followed by the  *)
(* crack-time expression of main, and get_natural_time_string with the     *)
(* numbers of seconds around each of its thresholds.                       *)
(***************************************************************************)
NoArgs ==
    [length |-> 0, upper_case |-> FALSE, lower_case |-> FALSE,
     numbers |-> FALSE, symbols |-> FALSE, quiet |-> FALSE]

\* the least number of seconds whose timedelta has more days than timedelta.max
DaysOverflow == BigMulInt(BigAdd(timedelta_max.days, <<1>>), 86400)

\* the least number of seconds that makes years = AGE_OF_THE_UNIVERSE_Y, and
\* the least that makes years exceed it
AgeInSeconds == BigMulInt(AGE_OF_THE_UNIVERSE_Y, 365 * 24 * 60 * 60)
PastAgeInSeconds ==
    BigMulInt(BigAdd(AGE_OF_THE_UNIVERSE_Y, <<1>>), 365 * 24 * 60 * 60)

Thresholds == {DaysOverflow, AgeInSeconds, PastAgeInSeconds}

SecondsInputs ==
    {FromInt(d) : d \in 0..MaxDelta}
    \cup {BigAdd(t, FromInt(d)) : t \in Thresholds, d \in 0..MaxDelta}
    \cup {BigSub(t, FromInt(d)) : t \in Thresholds, d \in 0..MaxDelta}

InitFn ==
    /\ pc = "call"
    /\ Fresh
    /\ \/ /\ caller = "assemble_charset"
          /\ argv \in {a \in Namespace : a.length = 0 /\ ~a.quiet}
          /\ seconds = <<>>
       \/ /\ caller = "compute_possibilities"
          /\ argv \in [length : 0..MaxPowLen, upper_case : BOOLEAN,
                       lower_case : BOOLEAN, numbers : BOOLEAN,
                       symbols : BOOLEAN, quiet : {FALSE}]
          /\ seconds = <<>>
       \/ /\ caller = "get_natural_time_string"
          /\ argv = NoArgs
          /\ seconds \in SecondsInputs
    /\ args = argv

CallAssembleCharset ==
    /\ caller = "assemble_charset"
    /\ pc = "call"
    /\ ret' = assemble_charset(args.upper_case, args.lower_case, args.numbers,
                               args.symbols)
    /\ calls' = Append(calls, Call("assemble_charset", args))
    /\ pc' = "returned"
    /\ UNCHANGED <<argv, args, stdout, exit_status, raised, possibilities,
                   charset, password, caller, seconds>>

CallComputePossibilities ==
    /\ caller = "compute_possibilities"
    /\ pc = "call"
    /\ possibilities' = compute_possibilities(args.length, args.upper_case,
                            args.lower_case, args.numbers, args.symbols)
    /\ calls' = Append(calls, Call("compute_possibilities", args))
    /\ pc' = "estimate"
    /\ UNCHANGED <<argv, args, stdout, exit_status, raised, charset, password,
                   caller, seconds, ret>>

\* get_natural_time_string(possibilities // POTENTIAL_BF_ATTACKS_PER_SECOND)
EstimateCrackTime ==
    /\ pc = "estimate"
    /\ LET secs == BigDiv(possibilities, POTENTIAL_BF_ATTACKS_PER_SECOND)
           t    == get_natural_time_string(secs)
       IN  /\ seconds' = secs
           /\ ret' = t
           /\ raised' = t.raised
           /\ pc' = IF t.raised # "none" THEN "raised" ELSE "returned"
    /\ calls' = Append(calls, Call("get_natural_time_string", args))
    /\ UNCHANGED <<argv, args, stdout, exit_status, possibilities, charset,
                   password, caller>>

CallGetNaturalTimeString ==
    /\ caller = "get_natural_time_string"
    /\ pc = "call"
    /\ LET t == get_natural_time_string(seconds)
       IN  /\ ret' = t
           /\ raised' = t.raised
           /\ pc' = IF t.raised # "none" THEN "raised" ELSE "returned"
    /\ calls' = Append(calls, Call("get_natural_time_string", args))
    /\ UNCHANGED <<argv, args, stdout, exit_status, possibilities, charset,
                   password, caller, seconds>>

NextFn ==
    \/ CallAssembleCharset
    \/ CallComputePossibilities
    \/ EstimateCrackTime
    \/ CallGetNaturalTimeString

SpecFn == InitFn /\ [][NextFn]_vars

(***************************************************************************)
(* What the properties are stated with.                                    *)
(***************************************************************************)
SomeClass(a) == a.upper_case \/ a.lower_case \/ a.numbers \/ a.symbols

AllClasses(a) == a.upper_case /\ a.lower_case /\ a.numbers /\ a.symbols

SameClasses(a, b) ==
    /\ a.upper_case = b.upper_case
    /\ a.lower_case = b.lower_case
    /\ a.numbers = b.numbers
    /\ a.symbols = b.symbols

\* the union of the alphabets whose flags are true
Selected(a) ==
    {c \in UPPER_CASE_CHARS \cup LOWER_CASE_CHARS \cup NUMBER_CHARS \cup SYMBOL_CHARS :
        \/ a.upper_case /\ c \in UPPER_CASE_CHARS
        \/ a.lower_case /\ c \in LOWER_CASE_CHARS
        \/ a.numbers /\ c \in NUMBER_CHARS
        \/ a.symbols /\ c \in SYMBOL_CHARS}

\* the remainder of a number modulo a machine-sized m, digit by digit
RECURSIVE ModInt(_, _)
ModInt(a, m) ==
    IF a = <<>> THEN 0 ELSE (ModInt(Tail(a), m) * 10 + Head(a)) % m

\* n^k modulo m, in machine arithmetic
RECURSIVE PowModInt(_, _, _)
PowModInt(n, k, m) == IF k = 0 THEN 1 % m ELSE (PowModInt(n, k - 1, m) * n) % m

\* five primes whose product exceeds 10^34
Moduli == {9999991, 9999973, 9999971, 9999943, 9999937}

IsNumber(a) ==
    /\ \A i \in 1..Len(a) : a[i] \in 0..9
    /\ a # <<>> => a[Len(a)] # 0

PasswordLines == {i \in DOMAIN stdout :
    stdout[i].text \in {"%s", "The generated password is: GREEN\n%s\nRESET_ALL"}}

(***************************************************************************)
(* The properties.                                                         *)
(***************************************************************************)
\* C1: called with a length >= 1 and at least one class, generate_password
\* does not raise and returns exactly length characters, each of them in the
\* union of the selected alphabets, whatever the random source returns.
C1_PasswordLengthAndAlphabet ==
    (caller = "generate_password" /\ args.length >= 1 /\ SomeClass(args)) =>
        /\ pc # "raised"
        /\ raised = "none"
        /\ Len(password) <= args.length
        /\ \A i \in 1..Len(password) : password[i] \in Selected(args)
        /\ pc = "returned" =>
              /\ Len(ret) = args.length
              /\ \A i \in 1..Len(ret) : ret[i] \in Selected(args)

C1_Witness ==
    /\ caller = "generate_password"
    /\ pc = "returned"
    /\ args.length >= 1
    /\ args.numbers /\ ~args.upper_case /\ ~args.lower_case /\ ~args.symbols
    /\ Len(ret) = args.length
    /\ ret[1] \in NUMBER_CHARS

\* C2: with length < 1 main exits with status 1 without calling
\* compute_possibilities or generate_password and without printing a password;
\* with length >= 1 it raises nothing, is always at one of its steps (each
\* of which can be taken: the steps other than the generator's loop wait for
\* nothing, and the loop can iterate or return and is bounded by length),
\* exits with status 0 only, and has then printed exactly one password.
C2_LengthCheckedFirst ==
    /\ argv.length < 1 =>
          /\ pc \in {"check_length", "exited"}
          /\ calls = <<>>
          /\ possibilities = <<>>
          /\ PasswordLines = {}
          /\ pc = "exited" => exit_status = 1
    /\ argv.length >= 1 =>
          /\ exit_status \in {NotExited, 0}
          /\ raised = "none"
          /\ pc \in {"check_length", "header", "defaults", "report", "generate",
                    "gp_loop", "print_password", "exited"}
          /\ pc = "gp_loop" =>
                /\ ENABLED (GenLoop \/ GenReturn)
                /\ Len(password) <= args.length
          /\ pc # "exited" => PasswordLines = {}
          /\ pc = "exited" =>
                /\ exit_status = 0
                /\ Cardinality(PasswordLines) = 1
                /\ \A i \in PasswordLines : stdout[i].value = password
                /\ Len(calls) >= 1
                /\ calls[Len(calls)].fn = "generate_password"

C2_Witness ==
    /\ pc = "exited"
    /\ argv.length < 1
    /\ exit_status = 1
    /\ calls = <<>>

\* C3: every call main makes of compute_possibilities and generate_password
\* has at least one class flag true: all four when the user gave none, the
\* user's own otherwise; the generator never works on an empty character set.
C3_ClassSelectedBeforeCalls ==
    /\ \A i \in DOMAIN calls :
          /\ SomeClass(calls[i])
          /\ ~SomeClass(argv) => AllClasses(calls[i])
          /\ SomeClass(argv) => SameClasses(calls[i], argv)
    /\ pc \in {"gp_loop", "print_password"} => charset # <<>>
    /\ raised # "IndexError"

C3_Witness ==
    /\ pc = "gp_loop"
    /\ ~SomeClass(argv)
    /\ calls # <<>>
    /\ calls[Len(calls)].fn = "generate_password"
    /\ AllClasses(calls[Len(calls)])

\* C4: for a length >= 1, compute_possibilities is exactly (the number of
\* selected characters) ^ length: it is a number of at most 34 digits with the
\* residues of that power modulo five primes whose product exceeds 10^34.
\* Upper case only and length 8 give 208827064576, and 208 seconds.
C4_ExactPower ==
    (caller = "compute_possibilities" /\ pc # "call" /\ args.length >= 1) =>
        /\ IsNumber(possibilities)
        /\ Len(possibilities) <= 34
        /\ \A m \in Moduli :
              ModInt(possibilities, m)
                = PowModInt(Cardinality(Selected(args)), args.length, m)
        /\ ( /\ args.length = 8
             /\ args.upper_case /\ ~args.lower_case /\ ~args.numbers /\ ~args.symbols )
           => /\ possibilities = Dec(<<2, 0, 8, 8, 2, 7, 0, 6, 4, 5, 7, 6>>)
              /\ pc # "estimate" => seconds = Dec(<<2, 0, 8>>)

C4_Witness ==
    /\ caller = "compute_possibilities"
    /\ pc = "returned"
    /\ args.length = 8
    /\ args.upper_case /\ ~args.lower_case /\ ~args.numbers /\ ~args.symbols
    /\ possibilities = Dec(<<2, 0, 8, 8, 2, 7, 0, 6, 4, 5, 7, 6>>)
    /\ seconds = Dec(<<2, 0, 8>>)

\* C5: get_natural_time_string never raises; up to timedelta.max
\* (999999999 days, 86399 seconds, 999999 microseconds) it renders a natural
\* duration; beyond it, with years = seconds // (365*24*60*60), it renders
\* years // 13800000000 times the age of the universe exactly when
\* years > 13800000000, and the years otherwise.
C5_NaturalTimeString ==
    (pc \in {"returned", "raised"}
     /\ caller \in {"get_natural_time_string", "compute_possibilities"}) =>
        LET ceiling == BigAdd(BigMulInt(BigAdd(BigMulInt(timedelta_max.days, 86400),
                                               timedelta_max.seconds), 1000000),
                              timedelta_max.microseconds)
            beyond  == BigLess(ceiling, BigMulInt(seconds, 1000000))
            years   == BigDiv(seconds, FromInt(365 * 24 * 60 * 60))
        IN  /\ pc = "returned"
            /\ ret.raised = "none"
            /\ ~beyond => ret.text = "naturaldelta"
            /\ (beyond /\ BigLess(AGE_OF_THE_UNIVERSE_Y, years)) =>
                  /\ ret.text = "%s times the age of the universe"
                  /\ ret.n = BigDiv(years, AGE_OF_THE_UNIVERSE_Y)
            /\ (beyond /\ ~BigLess(AGE_OF_THE_UNIVERSE_Y, years)) =>
                  /\ ret.text = "%s years"
                  /\ ret.n = years

C7_RejectsLengthBelowOne ==
    (caller = "generate_password" /\ args.length < 1) => pc # "returned"

\* C7, amended: called with a length < 1, generate_password does not raise,
\* draws no character and returns the empty string, for every selection.
C7_EmptyStringBelowOne ==
    (caller = "generate_password" /\ args.length < 1) =>
        /\ pc # "raised"
        /\ raised = "none"
        /\ password = <<>>
        /\ pc = "gp_loop" => ENABLED GenReturn
        /\ pc = "returned" => ret = <<>>

C7_Witness ==
    /\ caller = "generate_password"
    /\ pc = "returned"
    /\ args.length < 1
    /\ ~SomeClass(args)
    /\ ret = <<>>

OnlyUpper(a) == a.upper_case /\ ~a.lower_case /\ ~a.numbers /\ ~a.symbols
OnlyLower(a) == ~a.upper_case /\ a.lower_case /\ ~a.numbers /\ ~a.symbols
OnlyNumbers(a) == ~a.upper_case /\ ~a.lower_case /\ a.numbers /\ ~a.symbols
OnlySymbols(a) == ~a.upper_case /\ ~a.lower_case /\ ~a.numbers /\ a.symbols

\* C9 as stated: the alphabets have 26, 26, 10 and 8 characters, and all
\* four together 70, both as the character set assemble_charset returns and
\* as the base of compute_possibilities (its result for length 1).
C9_SeventyCharacters ==
    /\ (caller = "assemble_charset" /\ pc = "returned") =>
          /\ OnlyUpper(args) => Len(ret) = 26
          /\ OnlyLower(args) => Len(ret) = 26
          /\ OnlyNumbers(args) => Len(ret) = 10
          /\ OnlySymbols(args) => Len(ret) = 8
          /\ AllClasses(args) => Len(ret) = 70
    /\ (caller = "compute_possibilities" /\ pc # "call" /\ args.length = 1) =>
          /\ OnlyUpper(args) => possibilities = Dec(<<2, 6>>)
          /\ OnlyLower(args) => possibilities = Dec(<<2, 6>>)
          /\ OnlyNumbers(args) => possibilities = Dec(<<1, 0>>)
          /\ OnlySymbols(args) => possibilities = Dec(<<8>>)
          /\ AllClasses(args) => possibilities = Dec(<<7, 0>>)

\* C9, amended: the alphabets have 26, 26, 10 and 10 characters, and all
\* four together 72, both as the character set assemble_charset returns and
\* as the base of compute_possibilities (its result for length 1).
C9_SeventyTwoCharacters ==
    /\ (caller = "assemble_charset" /\ pc = "returned") =>
          /\ OnlyUpper(args) => Len(ret) = 26
          /\ OnlyLower(args) => Len(ret) = 26
          /\ OnlyNumbers(args) => Len(ret) = 10
          /\ OnlySymbols(args) => Len(ret) = 10
          /\ AllClasses(args) => Len(ret) = 72
    /\ (caller = "compute_possibilities" /\ pc # "call" /\ args.length = 1) =>
          /\ OnlyUpper(args) => possibilities = Dec(<<2, 6>>)
          /\ OnlyLower(args) => possibilities = Dec(<<2, 6>>)
          /\ OnlyNumbers(args) => possibilities = Dec(<<1, 0>>)
          /\ OnlySymbols(args) => possibilities = Dec(<<1, 0>>)
          /\ AllClasses(args) => possibilities = Dec(<<7, 2>>)

C9_Witness ==
    /\ caller = "assemble_charset"
    /\ pc = "returned"
    /\ AllClasses(args)
    /\ Len(ret) = 72

\* C10: for every selection assemble_charset returns, without raising, a
\* list without duplicates whose elements are exactly the union of the
\* selected alphabets (empty when none is selected), as many as the
\* possible_chars of compute_possibilities for the same selection.
C10_CharsetIsSelectedUnion ==
    (caller = "assemble_charset" /\ pc # "call") =>
        /\ pc = "returned"
        /\ raised = "none"
        /\ \A i, j \in 1..Len(ret) : ret[i] = ret[j] => i = j
        /\ {ret[i] : i \in 1..Len(ret)} = Selected(args)
        /\ ~SomeClass(args) => ret = <<>>
        /\ Len(ret) = possible_chars(args.upper_case, args.lower_case,
                                     args.numbers, args.symbols)

C10_Witness ==
    /\ caller = "assemble_charset"
    /\ pc = "returned"
    /\ args.upper_case /\ ~args.lower_case /\ args.numbers /\ ~args.symbols
    /\ Len(ret) = 36

====
